---- MODULE Spec2Model ----
(***************************************************************************)
(* SereneDesk (src/app.py): the session's three collections               *)
(* (mood_history, wellness_log, stress_triggers) and the script runs that  *)
(* read and write them.                                                    *)
(*                                                                         *)
(* The program is a Streamlit script: every user interaction (choosing a   *)
(* page in the sidebar, clicking a button) re-runs main() from the top     *)
(* with the session state kept.  One action of the model is one such run   *)
(* of main(): the sidebar, then the selected page, with the widget the     *)
(* user acted on.  A button returns True only in the run its click         *)
(* started, and can be clicked only if the previous run drew it; the page  *)
(* selectbox of the sidebar is drawn by every run.                         *)
(*                                                                         *)
(* Time is counted in seconds, and a run that stores datetime.now() is     *)
(* followed by the next run at least a second later, so that no two stored *)
(* timestamps are equal.  A datetime is [kind |-> "datetime", val],  *)
(* the string isoformat() makes of it is [kind |-> "str", val]: the two    *)
(* are different values and only the first has .date(), .isoformat(),      *)
(* .strftime().                                                            *)
(*                                                                         *)
(* A text is a sequence of atoms; an atom is the whitespace atom " " or a  *)
(* run of non-whitespace characters.  Emoji of the widget labels are left  *)
(* out of the atoms.                                                       *)
(***************************************************************************)
EXTENDS Integers, Sequences, FiniteSets, TLC

VARIABLES mood_history, wellness_log, stress_triggers, now, ticks,
          result, prev_export, call_log

vars == <<mood_history, wellness_log, stress_triggers, now, ticks,
          result, prev_export, call_log>>

data == <<mood_history, wellness_log, stress_triggers>>

\* ---------------------------------------------------------------- bounds
MaxCheckins == 2
MaxJournal == 2
MaxTicks == 2

\* ------------------------------------------------------------- constants
\* timedelta(days=7) of line 231, timedelta(days=30) of line 234
Days7 == 7
Days30 == 30

\* timedelta(days=...), in seconds
timedelta(days) == days * 24 * 60 * 60

\* the longer waits between two runs: a second, and what brings an entry
\* stored a second ago to the age of 7 and of 30 days
Jumps == {1, timedelta(Days7) - 1, timedelta(Days30) - 1}

\* ------------------------------------------------------------------ text
WS == " "

RECURSIVE lstrip(_)
lstrip(s) == IF s # <<>> /\ Head(s) = WS THEN lstrip(Tail(s)) ELSE s

RECURSIVE rstrip(_)
rstrip(s) ==
    IF s # <<>> /\ s[Len(s)] = WS THEN rstrip(SubSeq(s, 1, Len(s) - 1)) ELSE s

\* as strip, but the text is taken as typed
strip_nothing(s) == s

\* str.strip()
strip(s) == rstrip(lstrip(s))

\* what the user may enter on the check-in page: the text area and the
\* two selectboxes
CheckinForms ==
    { [text_input |-> <<>>, quick_mood |-> "Select...", energy_quick |-> "Select..."],
      [text_input |-> <<WS, WS>>, quick_mood |-> "Great", energy_quick |-> "Select..."],
      [text_input |-> <<WS, "tired", WS>>, quick_mood |-> "Select...",
       energy_quick |-> "Low"] }

\* f" My mood right now is {quick_mood}."
MoodSuffix(quick_mood) ==
    <<WS, "My", WS, "mood", WS, "right", WS, "now", WS, "is", WS, quick_mood, ".">>

\* f" My energy level is {energy_quick}."
EnergySuffix(energy_quick) ==
    <<WS, "My", WS, "energy", WS, "level", WS, "is", WS, energy_quick, ".">>

\* lines 107-113
enhanced_text(text_input, quick_mood, energy_quick) ==
    strip(text_input)
      \o (IF quick_mood # "Select..." THEN MoodSuffix(quick_mood) ELSE <<>>)
      \o (IF energy_quick # "Select..." THEN EnergySuffix(energy_quick) ELSE <<>>)

\* ------------------------------------------------------------ timestamps
datetime(t) == [kind |-> "datetime", val |-> t]

\* datetime.isoformat(): a str, which has no isoformat()/date()/strftime()
isoformat(ts) == [kind |-> "str", val |-> ts.val]

is_datetime(ts) == ts.kind = "datetime"

\* ------------------------------------------------------------ dictionaries
\* dict.get(key, default)
Get(d, key, default) == IF key \in DOMAIN d THEN d[key] ELSE default

\* what analyze_sentiment may return: well-formed classifications, and one
\* with keys missing and values outside the documented ranges
SentimentResults ==
    { [mood_score |-> 9, stress_level |-> "High", energy_level |-> "High",
       stress_triggers |-> <<"deadline">>],
      [mood_score |-> 3, stress_level |-> "Low", energy_level |-> "Low",
       stress_triggers |-> <<"meetings", "deadline">>],
      [mood_score |-> 11, stress_level |-> "Extreme"] }

\* what generate_suggestions may return
WellnessSuggestions ==
    { [journaling_prompt |-> "What would help me feel more energized today?"] }

\* how the two calls of the external client may end
ServiceOutcomes == {"ok", "analyze_fails", "generate_fails"}

\* --------------------------------------------------------------- results
\* what a run of main() showed: the interaction that started it, whether
\* it ran to its end without an uncaught exception, the buttons it drew,
\* and what it displayed
Result(op, ok, widgets, out) ==
    [op |-> op, ok |-> ok, widgets |-> widgets, out |-> out]

Nothing == [shown |-> "nothing"]

\* an uncaught exception: Streamlit shows it and stops the run
Raised(error) == [shown |-> "exception", error |-> error]

\* ----------------------------------------------------------------- main
\* lines 60-64: the Quick Stats of the sidebar call .date() on the
\* timestamp of every check-in
sidebar_ok(mh) == \A i \in 1..Len(mh) : is_datetime(mh[i].timestamp)

\* st.button: True only in the run started by the click on this button
button(key, clicked) == clicked = key

\* -------------------------------------------------------------- check-in
\* as increment, but a tag seen again is set back to 1
increment_resets(st, trigger) ==
    IF \E i \in 1..Len(st) : st[i].tag = trigger
    THEN [i \in 1..Len(st) |->
            IF st[i].tag = trigger
            THEN [tag |-> trigger, count |-> 1]
            ELSE st[i]]
    ELSE Append(st, [tag |-> trigger, count |-> 1])

\* lines 209-213, one trigger; the dict keeps its keys in insertion order
increment(st, trigger) ==
    IF \E i \in 1..Len(st) : st[i].tag = trigger
    THEN [i \in 1..Len(st) |->
            IF st[i].tag = trigger
            THEN [tag |-> trigger, count |-> st[i].count + 1]
            ELSE st[i]]
    ELSE Append(st, [tag |-> trigger, count |-> 1])

RECURSIVE update_triggers(_, _)
\* lines 208-213
update_triggers(st, triggers) ==
    IF triggers = <<>> THEN st
    ELSE update_triggers(increment(st, Head(triggers)), Tail(triggers))

\* lines 197-204
new_entry(transcript, sentiment_result, wellness_suggestions, t) ==
    [timestamp |-> datetime(t),
     transcript |-> transcript,
     mood_score |-> Get(sentiment_result, "mood_score", 5),
     stress_level |-> Get(sentiment_result, "stress_level", "Moderate"),
     energy_level |-> Get(sentiment_result, "energy_level", "Medium"),
     wellness_suggestions |-> wellness_suggestions]

\* as save_checkin, but the entry is put in front of the history
save_checkin_in_front(mh, st, transcript, sentiment_result, wellness_suggestions, t) ==
    [mood_history |->
        <<new_entry(transcript, sentiment_result, wellness_suggestions, t)>> \o mh,
     stress_triggers |->
        update_triggers(st, Get(sentiment_result, "stress_triggers", <<>>))]

\* lines 196-213
save_checkin(mh, st, transcript, sentiment_result, wellness_suggestions, t) ==
    [mood_history |->
        Append(mh, new_entry(transcript, sentiment_result, wellness_suggestions, t)),
     stress_triggers |->
        update_triggers(st, Get(sentiment_result, "stress_triggers", <<>>))]

\* what the check-in page showed
CheckinOut(shown, analyzer_called, generator_called, failed) ==
    [shown |-> shown, analyzer_called |-> analyzer_called,
     generator_called |-> generator_called, failed |-> failed]

\* as reaches_save, but the entry is saved before the suggestions are made
reaches_save_early(outcome) == outcome # "analyze_fails"

\* lines 118-135: save_checkin (line 131) is reached only when both calls
\* of the try block returned
reaches_save(outcome) == outcome = "ok"

\* lines 105-138: the left column of the check-in page.  clicked is the
\* button the user clicked: "insights" (line 105) or
\* "insights_button_empty" (line 137), which is drawn only when line 105
\* is false
voice_checkin_page(mh, st, clicked, form, outcome, sentiment_result, wellness_suggestions, t) ==
    IF button("insights", clicked) /\ strip(form.text_input) # <<>>
    THEN LET transcript == enhanced_text(form.text_input, form.quick_mood,
                                         form.energy_quick)
             failed == IF outcome = "analyze_fails" THEN "analyze"
                       ELSE IF outcome = "generate_fails" THEN "generate"
                       ELSE "none"
         IN  IF ~reaches_save(outcome)
             THEN [mood_history |-> mh, stress_triggers |-> st,
                   widgets |-> {"insights"},
                   out |-> CheckinOut("error", TRUE, failed # "analyze", failed)]
             ELSE LET saved == save_checkin(mh, st, transcript, sentiment_result,
                                            wellness_suggestions, t)
                  IN  [mood_history |-> saved.mood_history,
                       stress_triggers |-> saved.stress_triggers,
                       widgets |-> {"insights"},
                       out |-> CheckinOut(IF failed = "none" THEN "results"
                                          ELSE "error",
                                          TRUE, TRUE, failed)]
    ELSE IF button("insights_button_empty", clicked)
    THEN [mood_history |-> mh, stress_triggers |-> st,
          widgets |-> {"insights", "insights_button_empty"},
          out |-> CheckinOut("warning", FALSE, FALSE, "none")]
    ELSE [mood_history |-> mh, stress_triggers |-> st,
          widgets |-> {"insights", "insights_button_empty"},
          out |-> CheckinOut("nothing", FALSE, FALSE, "none")]

\* ------------------------------------------------------------- analytics
Periods == {"Last 7 days", "Last 30 days", "All time"}

\* as filter_period, but with an open lower bound
filter_period_open(mh, period, t) ==
    IF period = "Last 7 days"
    THEN LET cutoff == t - timedelta(Days7)
             keep(e) == e.timestamp.val > cutoff
         IN  SelectSeq(mh, keep)
    ELSE IF period = "Last 30 days"
    THEN LET cutoff == t - timedelta(Days30)
             keep(e) == e.timestamp.val > cutoff
         IN  SelectSeq(mh, keep)
    ELSE mh

\* lines 229-237: df[df['timestamp'] >= cutoff]
filter_period(mh, period, t) ==
    IF period = "Last 7 days"
    THEN LET cutoff == t - timedelta(Days7)
             keep(e) == e.timestamp.val >= cutoff
         IN  SelectSeq(mh, keep)
    ELSE IF period = "Last 30 days"
    THEN LET cutoff == t - timedelta(Days30)
             keep(e) == e.timestamp.val >= cutoff
         IN  SelectSeq(mh, keep)
    ELSE mh

RECURSIVE sum_mood(_)
sum_mood(df) == IF df = <<>> THEN 0 ELSE Head(df).mood_score + sum_mood(Tail(df))

\* value_counts().get(label, 0)
count_level(df, field, label) ==
    Cardinality({i \in 1..Len(df) : df[i][field] = label})

\* a / b of two Python numbers, kept as the fraction; b = 0 raises
divide(a, b) ==
    IF b = 0 THEN [raised |-> TRUE, num |-> a, den |-> b]
    ELSE [raised |-> FALSE, num |-> a, den |-> b]

\* lines 243-264: the key metrics of a filtered frame
key_metrics(df_filtered) ==
    LET total_checkins == Len(df_filtered)
        high_stress == count_level(df_filtered, "stress_level", "High")
        high_energy == count_level(df_filtered, "energy_level", "High")
        stress_percentage == divide(high_stress * 100, total_checkins)
        energy_percentage == divide(high_energy * 100, total_checkins)
    IN  IF stress_percentage.raised \/ energy_percentage.raised
        THEN Raised("ZeroDivisionError")
        ELSE [shown |-> "summary",
              total_checkins |-> total_checkins,
              avg_mood |-> [num |-> sum_mood(df_filtered), den |-> total_checkins],
              stress_percentage |-> stress_percentage,
              energy_percentage |-> energy_percentage]

\* as analytics_page, without the return of lines 239-241
analytics_page_unguarded(mh, period, t) ==
    IF mh = <<>>
    THEN [widgets |-> {}, out |-> [shown |-> "info"]]
    ELSE LET df_filtered == filter_period(mh, period, t)
         IN  [widgets |-> {"period"},
              out |-> key_metrics(df_filtered)
                      @@ [period |-> period, at |-> t, kept |-> df_filtered]]

\* lines 215-264
analytics_page(mh, period, t) ==
    IF mh = <<>>
    THEN [widgets |-> {}, out |-> [shown |-> "info"]]
    ELSE LET df_filtered == filter_period(mh, period, t)
         IN  [widgets |-> {"period"},
              out |-> (IF df_filtered = <<>>
                       THEN [shown |-> "warning"]
                       ELSE key_metrics(df_filtered))
                      @@ [period |-> period, at |-> t, kept |-> df_filtered]]

\* line 298: head(10)
TopN == 10

RECURSIVE orders(_, _)
\* the orders in which a sort by descending count may leave the rows left
\* of df: rows of equal count in any order
orders(df, left) ==
    IF left = {} THEN {<<>>}
    ELSE LET first == {i \in left : \A j \in left : df[i].count >= df[j].count}
         IN  UNION { { <<df[i]>> \o rest : rest \in orders(df, left \ {i}) } :
                     i \in first }

\* line 298: sort_values('Frequency', ascending=False) sorts with the
\* default kind, quicksort, which does not promise to keep rows of equal
\* count in their order
sort_values(df) == orders(df, 1..Len(df))

\* DataFrame.head(n)
head(df, n) == SubSeq(df, 1, IF Len(df) < n THEN Len(df) ELSE n)

\* lines 294-298: the tables the Top Stress Triggers chart may show after
\* the summary out; the rows are the items of the dict, in insertion
\* order.  No chart without a summary (lines 223, 241) or without triggers
top_triggers(out, st) ==
    IF out.shown = "summary" /\ st # <<>>
    THEN { head(sorted, TopN) : sorted \in sort_values(st) }
    ELSE { <<>> }

\* ----------------------------------------------------------- soundscapes
\* as recommend, with the mood rule tried before the stress rule
recommend_mood_first(latest_mood) ==
    LET mood_score == latest_mood.mood_score
        stress_level == latest_mood.stress_level
    IN  IF mood_score < 5 THEN "Ocean Waves for mood boost"
        ELSE IF stress_level = "High" THEN "Rain & Thunder for stress relief"
        ELSE IF stress_level = "Low" THEN "Coffee Shop for productivity"
        ELSE "Forest Ambience for balance"

\* lines 358-368
recommend(latest_mood) ==
    LET mood_score == latest_mood.mood_score
        stress_level == latest_mood.stress_level
    IN  IF stress_level = "High" THEN "Rain & Thunder for stress relief"
        ELSE IF mood_score < 5 THEN "Ocean Waves for mood boost"
        ELSE IF stress_level = "Low" THEN "Coffee Shop for productivity"
        ELSE "Forest Ambience for balance"

\* lines 356-370
soundscapes_page(mh) ==
    IF mh # <<>>
    THEN [shown |-> "recommendation", recommended |-> recommend(mh[Len(mh)])]
    ELSE [shown |-> "info"]

\* --------------------------------------------------------------- journal
JournalPrompts == {"What am I grateful for today?"}

\* what the user may type in the journal text area
JournalTexts == { <<>>, <<WS, WS>>, <<"calm", WS, WS, "day", WS>> }

\* as word_count, but len(s.split(' ')): one more than the spaces
word_count_by_space(s) ==
    Cardinality({i \in 1..Len(s) : s[i] = WS}) + 1

\* len(s.split()): the number of maximal runs of non-whitespace atoms
word_count(s) ==
    Cardinality({i \in 1..Len(s) : s[i] # WS /\ (i = 1 \/ s[i - 1] = WS)})

\* lines 449-458: the history is drawn newest first; strftime needs a
\* datetime.  The positions (in the reversed list) whose expander and
\* Delete button are drawn
history_drawn(wl) ==
    LET n == Len(wl)
        rev(i) == wl[n + 1 - i]
        bad == {i \in 1..n : ~is_datetime(rev(i).timestamp)}
    IN  {i \in 1..n : \A j \in bad : i < j}

\* lines 380-459
journal_page(wl, clicked, journal_prompt, journal_entry, t) ==
    LET save == button("save_entry", clicked)
        valid == strip(journal_entry) # <<>>
        entry == [timestamp |-> datetime(t),
                  prompt |-> journal_prompt,
                  content |-> journal_entry,
                  word_count |-> word_count(journal_entry)]
        wl1 == IF save /\ valid THEN Append(wl, entry) ELSE wl
        shown == IF save THEN (IF valid THEN "saved" ELSE "warning") ELSE "nothing"
        deletes == history_drawn(wl1)
        ok == Cardinality(deletes) = Len(wl1)
    IN  [wellness_log |-> wl1,
         ok |-> ok,
         widgets |-> {"save_entry"},
         out |-> IF ok THEN [shown |-> shown, deletes |-> deletes]
                 ELSE Raised("AttributeError")
                        @@ [saved |-> shown, deletes |-> deletes]]

\* list.remove(x): drops the first item equal to x, ValueError when no
\* item is
list_remove(l, x) ==
    LET found == {k \in 1..Len(l) : l[k] = x}
    IN  IF found = {}
        THEN [list |-> l, raised |-> TRUE]
        ELSE LET k == CHOOSE a \in found : \A b \in found : a <= b
             IN  [list |-> SubSeq(l, 1, k - 1) \o SubSeq(l, k + 1, Len(l)),
                  raised |-> FALSE]

\* as entry_at, but counted from the oldest entry
entry_at_forward(wl, i) == wl[i]

\* line 449: the entry the loop over reversed(wellness_log) holds at
\* position i, the newest entry at position 1
entry_at(wl, i) == wl[Len(wl) + 1 - i]

\* lines 449-459 in the run that a click on the Delete button at position
\* i started: the loop draws the entries before it, removes the entry and
\* asks for a rerun; the rerun draws the page again
delete_clicked(wl, i, t) ==
    IF i \notin history_drawn(wl)
    THEN [wellness_log |-> wl, ok |-> FALSE, widgets |-> {"save_entry"},
          out |-> Raised("AttributeError")
                    @@ [saved |-> "nothing", deletes |-> history_drawn(wl)]]
    ELSE LET r == list_remove(wl, entry_at(wl, i))
         IN  IF r.raised
             THEN [wellness_log |-> wl, ok |-> FALSE, widgets |-> {"save_entry"},
                   out |-> Raised("ValueError")
                             @@ [saved |-> "nothing",
                                 deletes |-> {j \in history_drawn(wl) : j < i}]]
             ELSE journal_page(r.list, "none", "Free writing", <<>>, t)

\* -------------------------------------------------------------- settings
\* lines 500-503: for entry in entries: entry['timestamp'] =
\* entry['timestamp'].isoformat().  The entries are the session's own
\* dicts; the loop stops at the first timestamp that is already a str
convert_timestamps(entries) ==
    LET n == Len(entries)
        bad == {i \in 1..n : ~is_datetime(entries[i].timestamp)}
    IN  [entries |->
            [i \in 1..n |->
                IF \A j \in bad : i < j
                THEN [entries[i] EXCEPT !.timestamp = isoformat(@)]
                ELSE entries[i]],
         raised |-> bad # {}]

\* lines 491-510: export_data holds the session's own lists
export_data(mh, wl, st) ==
    LET m == convert_timestamps(mh)
        w == IF m.raised THEN [entries |-> wl, raised |-> TRUE]
             ELSE convert_timestamps(wl)
    IN  [mood_history |-> m.entries,
         wellness_log |-> w.entries,
         stress_triggers |-> st,
         raised |-> w.raised]

\* lines 482-519: the Data tab.  The Confirm Delete button (line 514) is
\* drawn, and read, only inside the branch of the Clear All Data button
\* (line 513)
settings_page(mh, wl, st, clicked) ==
    IF button("export", clicked)
    THEN LET e == export_data(mh, wl, st)
         IN  IF e.raised
             THEN [mood_history |-> e.mood_history, wellness_log |-> e.wellness_log,
                   stress_triggers |-> e.stress_triggers,
                   ok |-> FALSE, widgets |-> {"export"},
                   out |-> Raised("AttributeError")]
             ELSE [mood_history |-> e.mood_history, wellness_log |-> e.wellness_log,
                   stress_triggers |-> e.stress_triggers,
                   ok |-> TRUE, widgets |-> {"export", "download", "clear_all"},
                   out |-> [shown |-> "download",
                            json |-> [mood_history |-> e.mood_history,
                                      wellness_log |-> e.wellness_log,
                                      stress_triggers |-> e.stress_triggers]]]
    ELSE IF button("clear_all", clicked)
    THEN IF button("confirm", clicked)
         THEN [mood_history |-> <<>>, wellness_log |-> <<>>,
               stress_triggers |-> <<>>,
               ok |-> TRUE, widgets |-> {"export", "clear_all", "confirm"},
               out |-> [shown |-> "cleared"]]
         ELSE [mood_history |-> mh, wellness_log |-> wl, stress_triggers |-> st,
               ok |-> TRUE, widgets |-> {"export", "clear_all", "confirm"},
               out |-> Nothing]
    ELSE [mood_history |-> mh, wellness_log |-> wl, stress_triggers |-> st,
          ok |-> TRUE, widgets |-> {"export", "clear_all"},
          out |-> Nothing]

\* -------------------------------------------------------------- the runs
\* the result of the previous run, kept while the next one is an export
NextExport ==
    IF result.op = "export" THEN result ELSE Result("none", TRUE, {}, Nothing)

\* lines 60-64 raise before the page is drawn
SidebarRaises(op) ==
    /\ ~sidebar_ok(mood_history)
    /\ result' = Result(op, FALSE, {}, Raised("AttributeError"))
    /\ UNCHANGED <<mood_history, wellness_log, stress_triggers, call_log, now>>

\* the first run of the script: lines 26-31, then the first page of the
\* selectbox, the check-in page
Init ==
    /\ mood_history = <<>>
    /\ wellness_log = <<>>
    /\ stress_triggers = <<>>
    /\ now = 0
    /\ ticks = 0
    /\ result = Result("view_checkin", TRUE, {"insights", "insights_button_empty"},
                       CheckinOut("nothing", FALSE, FALSE, "none"))
    /\ prev_export = Result("none", TRUE, {}, Nothing)
    /\ call_log = <<>>

\* a long time passes between two runs
Tick ==
    /\ ticks < MaxTicks
    /\ \E d \in Jumps : now' = now + d
    /\ ticks' = ticks + 1
    /\ UNCHANGED <<mood_history, wellness_log, stress_triggers, result,
                   prev_export, call_log>>

\* inputs that the run does not read are held at one value
NoSentiment == CHOOSE r \in SentimentResults : "energy_level" \notin DOMAIN r

\* the user chooses the check-in page in the sidebar (lines 66-67)
ViewCheckin ==
    /\ \/ SidebarRaises("view_checkin")
       \/ /\ sidebar_ok(mood_history)
          /\ LET r == voice_checkin_page(mood_history, stress_triggers, "none",
                          CHOOSE f \in CheckinForms : f.text_input = <<>>,
                          "ok", NoSentiment,
                          CHOOSE w \in WellnessSuggestions : TRUE, now)
             IN  result' = Result("view_checkin", TRUE, r.widgets, r.out)
          /\ UNCHANGED <<mood_history, wellness_log, stress_triggers, call_log, now>>
    /\ prev_export' = NextExport
    /\ UNCHANGED ticks

\* the user clicks one of the two "Get Wellness Insights" buttons
Checkin ==
    /\ \E clicked \in {"insights", "insights_button_empty"} \cap result.widgets,
          form \in CheckinForms,
          outcome \in ServiceOutcomes,
          sentiment_result \in SentimentResults,
          wellness_suggestions \in WellnessSuggestions :
          LET calls == clicked = "insights" /\ strip(form.text_input) # <<>>
          IN  /\ ~calls => outcome = "ok"
              /\ (~calls \/ outcome # "ok") => sentiment_result = NoSentiment
              /\ (calls /\ outcome = "ok") => Len(mood_history) < MaxCheckins
              /\ \/ SidebarRaises("checkin")
                 \/ /\ sidebar_ok(mood_history)
                    /\ LET r == voice_checkin_page(mood_history, stress_triggers,
                                    clicked, form, outcome, sentiment_result,
                                    wellness_suggestions, now)
                       IN  /\ mood_history' = r.mood_history
                           /\ stress_triggers' = r.stress_triggers
                           /\ result' = Result("checkin", TRUE, r.widgets,
                                               r.out @@ [clicked |-> clicked,
                                                         text_input |-> form.text_input])
                           /\ call_log' =
                                IF r.out.shown = "results"
                                THEN Append(call_log,
                                            [transcript |->
                                                enhanced_text(form.text_input,
                                                    form.quick_mood, form.energy_quick),
                                             sentiment_result |-> sentiment_result,
                                             at |-> now])
                                ELSE call_log
                           /\ now' = IF r.mood_history # mood_history
                                     THEN now + 1 ELSE now
                    /\ UNCHANGED wellness_log
    /\ prev_export' = NextExport
    /\ UNCHANGED ticks

\* the user chooses the analytics page (lines 68-69); the period selectbox
\* starts at its first option
ViewAnalytics ==
    /\ \/ SidebarRaises("view_analytics")
       \/ /\ sidebar_ok(mood_history)
          /\ LET r == analytics_page(mood_history, "Last 7 days", now)
             IN  \E top \in top_triggers(r.out, stress_triggers) :
                    result' = Result("view_analytics", r.out.shown # "exception",
                                     r.widgets, r.out @@ [top_triggers |-> top])
          /\ UNCHANGED <<mood_history, wellness_log, stress_triggers, call_log, now>>
    /\ prev_export' = NextExport
    /\ UNCHANGED ticks

\* the user changes the Time Period selectbox (line 227)
SelectPeriod ==
    /\ "period" \in result.widgets
    /\ \E period \in Periods :
          \/ SidebarRaises("select_period")
          \/ /\ sidebar_ok(mood_history)
             /\ LET r == analytics_page(mood_history, period, now)
                IN  \E top \in top_triggers(r.out, stress_triggers) :
                       result' = Result("select_period", r.out.shown # "exception",
                                        r.widgets, r.out @@ [top_triggers |-> top])
             /\ UNCHANGED <<mood_history, wellness_log, stress_triggers, call_log, now>>
    /\ prev_export' = NextExport
    /\ UNCHANGED ticks

\* the user chooses the soundscapes page (lines 70-71)
ViewSoundscapes ==
    /\ \/ SidebarRaises("view_soundscapes")
       \/ /\ sidebar_ok(mood_history)
          /\ result' = Result("view_soundscapes", TRUE, {},
                              soundscapes_page(mood_history))
          /\ UNCHANGED <<mood_history, wellness_log, stress_triggers, call_log, now>>
    /\ prev_export' = NextExport
    /\ UNCHANGED ticks

\* the user chooses the journal page (lines 72-73)
ViewJournal ==
    /\ \/ SidebarRaises("view_journal")
       \/ /\ sidebar_ok(mood_history)
          /\ LET r == journal_page(wellness_log, "none", "Free writing", <<>>, now)
             IN  result' = Result("view_journal", r.ok, r.widgets, r.out)
          /\ UNCHANGED <<mood_history, wellness_log, stress_triggers, call_log, now>>
    /\ prev_export' = NextExport
    /\ UNCHANGED ticks

\* the journal entries saved so far: the clock of a session without long
\* waits has advanced by one at each saved check-in and each saved entry
journal_saves == now - Len(mood_history)

\* the user clicks Save Entry (line 409)
SaveJournal ==
    /\ "save_entry" \in result.widgets
    /\ \E journal_prompt \in JournalPrompts, journal_entry \in JournalTexts :
          /\ strip(journal_entry) # <<>> => journal_saves < MaxJournal
          /\ \/ SidebarRaises("save_entry") /\ UNCHANGED wellness_log
             \/ /\ sidebar_ok(mood_history)
                /\ LET r == journal_page(wellness_log, "save_entry", journal_prompt,
                                         journal_entry, now)
                   IN  /\ wellness_log' = r.wellness_log
                       /\ result' = Result("save_entry", r.ok, r.widgets,
                                           r.out @@ [journal_entry |-> journal_entry])
                       /\ now' = IF r.wellness_log # wellness_log
                                 THEN now + 1 ELSE now
                /\ UNCHANGED <<mood_history, stress_triggers, call_log>>
    /\ prev_export' = NextExport
    /\ UNCHANGED ticks

\* the user clicks a Delete button the previous run drew (line 456)
DeleteJournal ==
    /\ "deletes" \in DOMAIN result.out
    /\ \E i \in result.out.deletes :
          \/ SidebarRaises("delete") /\ UNCHANGED wellness_log
          \/ /\ sidebar_ok(mood_history)
             /\ LET r == delete_clicked(wellness_log, i, now)
                IN  /\ wellness_log' = r.wellness_log
                    /\ result' = Result("delete", r.ok, r.widgets,
                                        r.out @@ [position |-> i])
             /\ UNCHANGED <<mood_history, stress_triggers, call_log, now>>
    /\ prev_export' = NextExport
    /\ UNCHANGED ticks

\* a run of the settings page started by clicked
SettingsRun(op, clicked) ==
    /\ \/ SidebarRaises(op)
       \/ /\ sidebar_ok(mood_history)
          /\ LET r == settings_page(mood_history, wellness_log, stress_triggers,
                                    clicked)
             IN  /\ mood_history' = r.mood_history
                 /\ wellness_log' = r.wellness_log
                 /\ stress_triggers' = r.stress_triggers
                 /\ result' = Result(op, r.ok, r.widgets, r.out)
          /\ UNCHANGED <<call_log, now>>
    /\ prev_export' = NextExport
    /\ UNCHANGED ticks

\* the user chooses the settings page (lines 74-75)
ViewSettings == SettingsRun("view_settings", "none")

\* the user clicks Export Data (line 491)
Export == "export" \in result.widgets /\ SettingsRun("export", "export")

\* the user clicks Clear All Data (line 513)
ClearAll == "clear_all" \in result.widgets /\ SettingsRun("clear_all", "clear_all")

\* the user clicks Confirm Delete (line 514)
ConfirmDelete == "confirm" \in result.widgets /\ SettingsRun("confirm", "confirm")

\* the session with waits much shorter than the analytics windows, and
\* with a journal that only grows
Next ==
    \/ ViewCheckin
    \/ Checkin
    \/ ViewAnalytics
    \/ SelectPeriod
    \/ ViewSoundscapes
    \/ ViewJournal
    \/ SaveJournal
    \/ ViewSettings
    \/ Export
    \/ ClearAll
    \/ ConfirmDelete

Spec == Init /\ [][Next]_vars

\* ------------------------------------------- the analytics over long waits
\* check-ins and analytics runs with long waits in between
NextAnalytics ==
    \/ Tick
    \/ ViewCheckin
    \/ Checkin
    \/ ViewAnalytics
    \/ SelectPeriod

SpecAnalytics == Init /\ [][NextAnalytics]_vars

\* ----------------------------------------------- the recommendation alone
\* the readings a latest check-in may carry
RecommendInputs ==
    { r \in [mood_score : 0..10, stress_level : {"Low", "Moderate", "High", "Extreme"}] :
        TRUE }
      \cup { [stress_level |-> "High"], [mood_score |-> 4], [mood_score |-> 5] }

RECURSIVE history_of(_, _)
\* the session after the check-ins srs, made at times 0, 1, ...
history_of(srs, transcript) ==
    IF srs = <<>> THEN [mood_history |-> <<>>, stress_triggers |-> <<>>]
    ELSE LET before == history_of(SubSeq(srs, 1, Len(srs) - 1), transcript)
         IN  save_checkin(before.mood_history, before.stress_triggers, transcript,
                          srs[Len(srs)], CHOOSE w \in WellnessSuggestions : TRUE,
                          Len(srs) - 1)

InitRecommend ==
    /\ \E srs \in {<<>>} \cup { <<a>> : a \in RecommendInputs }
                  \cup { <<a, b>> : a \in SentimentResults, b \in RecommendInputs } :
          /\ mood_history = history_of(srs, <<"tired">>).mood_history
          /\ stress_triggers = history_of(srs, <<"tired">>).stress_triggers
          /\ call_log = [i \in 1..Len(srs) |->
                            [transcript |-> <<"tired">>, sentiment_result |-> srs[i],
                             at |-> i - 1]]
          /\ now = Len(srs)
    /\ wellness_log = <<>>
    /\ ticks = 0
    /\ result = Result("view_checkin", TRUE, {"insights", "insights_button_empty"},
                       CheckinOut("nothing", FALSE, FALSE, "none"))
    /\ prev_export = Result("none", TRUE, {}, Nothing)

NextRecommend == ViewSoundscapes \/ ViewCheckin

SpecRecommend == InitRecommend /\ [][NextRecommend]_vars

\* ------------------------------------------------ the top triggers alone
\* the longest trigger list drawn from the three common tags
MaxTriggers == 3

CommonTags == {"deadline", "meetings", "email"}

\* eleven tags, one more than the chart shows
ManyTags ==
    <<"deadline", "meetings", "email", "commute", "sleep", "money",
      "health", "family", "noise", "workload", "travel">>

RECURSIVE repeated(_, _)
\* the list that names tag k of tags ((k + 1) \div 2) times
repeated(tags, k) ==
    IF k = 0 THEN <<>>
    ELSE repeated(tags, k - 1)
            \o [i \in 1..((k + 1) \div 2) |-> tags[k]]

\* the trigger lists one classification may carry
TriggerLists ==
    UNION { [1..n -> CommonTags] : n \in 0..MaxTriggers }
      \cup { repeated(ManyTags, Len(ManyTags)) }

\* the session after one check-in whose classification names triggers
InitTriggers ==
    /\ \E triggers \in TriggerLists :
          LET sr == [mood_score |-> 5, stress_level |-> "High",
                     energy_level |-> "Low", stress_triggers |-> triggers]
              h == history_of(<<sr>>, <<"tired">>)
          IN  /\ mood_history = h.mood_history
              /\ stress_triggers = h.stress_triggers
              /\ call_log = << [transcript |-> <<"tired">>, sentiment_result |-> sr,
                                at |-> 0] >>
    /\ now = 1
    /\ wellness_log = <<>>
    /\ ticks = 0
    /\ result = Result("view_checkin", TRUE, {"insights", "insights_button_empty"},
                       CheckinOut("nothing", FALSE, FALSE, "none"))
    /\ prev_export = Result("none", TRUE, {}, Nothing)

NextTriggers == ViewAnalytics \/ SelectPeriod

SpecTriggers == InitTriggers /\ [][NextTriggers]_vars

\* ------------------------------------------- the journal with deletions
\* the session after at most one check-in
InitJournal ==
    /\ \E srs \in {<<>>} \cup { <<a>> : a \in SentimentResults } :
          /\ mood_history = history_of(srs, <<"tired">>).mood_history
          /\ stress_triggers = history_of(srs, <<"tired">>).stress_triggers
          /\ call_log = [i \in 1..Len(srs) |->
                            [transcript |-> <<"tired">>, sentiment_result |-> srs[i],
                             at |-> i - 1]]
          /\ now = Len(srs)
    /\ wellness_log = <<>>
    /\ ticks = 0
    /\ result = Result("view_checkin", TRUE, {"insights", "insights_button_empty"},
                       CheckinOut("nothing", FALSE, FALSE, "none"))
    /\ prev_export = Result("none", TRUE, {}, Nothing)

\* the journal page and the export, which rewrites the stored timestamps
NextJournal ==
    \/ ViewJournal
    \/ SaveJournal
    \/ DeleteJournal
    \/ ViewSettings
    \/ Export

SpecJournal == InitJournal /\ [][NextJournal]_vars

\* ================================================================ claims

\* C1: the Export Data run leaves mood_history, wellness_log and
\* stress_triggers, timestamps included, exactly as they were.
C1_ExportKeepsState == [][result'.op = "export" => data' = data]_vars

\* C2: two Export Data runs with no other run in between both succeed and
\* give the same snapshot.
C2_ExportTwiceSame ==
    (result.op = "export" /\ prev_export.op = "export")
        => /\ result.ok
           /\ prev_export.ok
           /\ result.out = prev_export.out

\* C3: a check-in whose sentiment call or suggestion call fails leaves the
\* three collections exactly as they were.
C3_FailedCallKeepsState ==
    [][(/\ result'.op = "checkin"
        /\ result'.out.shown # "exception"
        /\ result'.out.failed \in {"analyze", "generate"})
        => data' = data]_vars

C3_Witness ==
    /\ result.op = "checkin"
    /\ result.out.shown = "error"
    /\ result.out.failed = "generate"
    /\ mood_history # <<>>
    /\ stress_triggers # <<>>

\* C4: mood_history holds one entry per successful check-in, in the order
\* the check-ins were made.
C4_HistoryFollowsCalls ==
    /\ Len(mood_history) = Len(call_log)
    /\ \A i \in 1..Len(call_log) :
          /\ mood_history[i].transcript = call_log[i].transcript
          /\ mood_history[i].timestamp.val = call_log[i].at
          /\ mood_history[i].mood_score
                = Get(call_log[i].sentiment_result, "mood_score", 5)
          /\ mood_history[i].stress_level
                = Get(call_log[i].sentiment_result, "stress_level", "Moderate")

C4_Witness ==
    /\ Len(mood_history) = 2
    /\ mood_history[1].mood_score # mood_history[2].mood_score
    /\ result.op = "checkin"
    /\ result.out.shown = "results"

\* whether a text is empty or whitespace only
IsBlank(s) == \A i \in 1..Len(s) : s[i] = WS

\* C5: a check-in whose text is empty or whitespace only calls no
\* classifier, adds no entry and leaves stress_triggers as it was.
C5_BlankRejected ==
    [][(/\ result'.op = "checkin"
        /\ result'.out.shown # "exception"
        /\ IsBlank(result'.out.text_input))
        => /\ ~result'.out.analyzer_called
           /\ ~result'.out.generator_called
           /\ mood_history' = mood_history
           /\ stress_triggers' = stress_triggers]_vars

C5_Witness ==
    /\ result.op = "checkin"
    /\ result.out.shown = "nothing"
    /\ result.out.clicked = "insights"
    /\ result.out.text_input = <<WS, WS>>
    /\ mood_history # <<>>

\* C6: every stored entry has mood_score in 0..10, stress_level in
\* {Low, Moderate, High} and energy_level in {Low, Medium, High}.
C6_EntriesInRange ==
    \A i \in 1..Len(mood_history) :
        /\ mood_history[i].mood_score \in 0..10
        /\ mood_history[i].stress_level \in {"Low", "Moderate", "High"}
        /\ mood_history[i].energy_level \in {"Low", "Medium", "High"}

\* C7: once the user has clicked Clear All Data and then Confirm Delete,
\* the three collections are empty.
C7_ConfirmClears ==
    result.op = "confirm"
        => /\ mood_history = <<>>
           /\ wellness_log = <<>>
           /\ stress_triggers = <<>>

\* C8: the soundscape recommendation follows the priority cascade on the
\* latest check-in: High stress gives stress relief whatever the mood,
\* else a mood under 5 gives mood boost, else Low stress gives
\* productivity, else balance; with no check-in there is none.
C8_RecommendCascade ==
    (result.op = "view_soundscapes" /\ result.ok)
        => IF mood_history = <<>>
           THEN result.out.shown = "info"
           ELSE LET latest == mood_history[Len(mood_history)]
                    high == latest.stress_level = "High"
                    low == latest.stress_level = "Low"
                    sad == latest.mood_score < 5
                    r == result.out.recommended
                IN  /\ result.out.shown = "recommendation"
                    /\ high => r = "Rain & Thunder for stress relief"
                    /\ (~high /\ sad) => r = "Ocean Waves for mood boost"
                    /\ (~high /\ ~sad /\ low) => r = "Coffee Shop for productivity"
                    /\ (~high /\ ~sad /\ ~low) => r = "Forest Ambience for balance"

C8_Witness ==
    /\ result.op = "view_soundscapes"
    /\ Len(mood_history) = 2
    /\ mood_history[2].stress_level = "High"
    /\ mood_history[2].mood_score = 3
    /\ mood_history[1].stress_level = "Low"
    /\ result.out.recommended = "Rain & Thunder for stress relief"

\* whether the last run drew the analytics page
AnalyticsShown ==
    /\ result.op \in {"view_analytics", "select_period"}
    /\ ~(result.out.shown = "exception" /\ result.out.error = "AttributeError")

\* C9: the analytics never divide by zero: with no check-in, or none in
\* the window, no average and no percentage is computed; they are
\* computed only over a filtered count of at least 1.
C9_NoDivisionByZero ==
    AnalyticsShown
        => /\ result.out.shown \in {"info", "warning", "summary"}
           /\ (mood_history = <<>>) => result.out.shown = "info"
           /\ (mood_history # <<>> /\ result.out.kept = <<>>)
                 => result.out.shown = "warning"
           /\ result.out.shown \in {"info", "warning"}
                 => DOMAIN result.out
                      \cap {"avg_mood", "stress_percentage", "energy_percentage"} = {}
           /\ result.out.shown = "summary"
                 => /\ result.out.total_checkins >= 1
                    /\ result.out.avg_mood.den >= 1
                    /\ result.out.stress_percentage.den >= 1
                    /\ result.out.energy_percentage.den >= 1

C9_Witness ==
    /\ result.op = "select_period"
    /\ result.out.shown = "warning"
    /\ result.out.period = "Last 30 days"
    /\ mood_history # <<>>

\* the entries of mood_history an analytics run at time at must keep
InWindow(period, at) ==
    LET window == IF period = "Last 7 days" THEN 7 * 86400 ELSE 30 * 86400
        keep(e) == period = "All time" \/ at - e.timestamp.val <= window
    IN  SelectSeq(mood_history, keep)

\* C10: the 7-day and 30-day windows keep an entry exactly when its
\* timestamp is at or after now minus the window; All time keeps all.
C10_ClosedLowerBound ==
    (AnalyticsShown /\ mood_history # <<>>)
        => result.out.kept = InWindow(result.out.period, result.out.at)

C10_Witness ==
    /\ result.op \in {"view_analytics", "select_period"}
    /\ result.out.shown = "summary"
    /\ result.out.period = "Last 7 days"
    /\ Len(mood_history) = 2
    /\ result.out.at - mood_history[1].timestamp.val = 7 * 86400 + 1
    /\ result.out.at - mood_history[2].timestamp.val = 7 * 86400
    /\ mood_history[1].timestamp.val + 1 = mood_history[2].timestamp.val
    /\ result.out.kept = <<mood_history[2]>>

\* the tags the classifier may name
AllTags ==
    UNION { {r.stress_triggers[i] : i \in 1..Len(r.stress_triggers)} :
            r \in {x \in SentimentResults : "stress_triggers" \in DOMAIN x} }

\* how often tag occurs in the trigger lists of the successful check-ins
Occurrences(tag) ==
    Cardinality({ <<c, i>> \in (1..Len(call_log)) \X (1..3) :
                    LET ts == Get(call_log[c].sentiment_result, "stress_triggers", <<>>)
                    IN  i <= Len(ts) /\ ts[i] = tag })

\* the count stored for tag, 0 when the tag is not stored
StoredCount(st, tag) ==
    IF \E i \in 1..Len(st) : st[i].tag = tag
    THEN st[CHOOSE i \in 1..Len(st) : st[i].tag = tag].count
    ELSE 0

\* C11: the count stored for each trigger tag is the number of times the
\* tag occurred in the trigger lists of the successful check-ins, a tag is
\* stored once, and no run lowers a count or drops a tag.
C11_TriggerCounts ==
    /\ [](/\ \A tag \in AllTags : StoredCount(stress_triggers, tag) = Occurrences(tag)
          /\ \A i \in 1..Len(stress_triggers) :
                /\ stress_triggers[i].tag \in AllTags
                /\ stress_triggers[i].count >= 1
                /\ \A j \in 1..Len(stress_triggers) :
                      stress_triggers[j].tag = stress_triggers[i].tag => j = i)
    /\ [][\A i \in 1..Len(stress_triggers) :
             StoredCount(stress_triggers', stress_triggers[i].tag)
                >= stress_triggers[i].count]_vars

C11_Witness ==
    /\ Len(call_log) = 2
    /\ StoredCount(stress_triggers, "deadline") = 2
    /\ StoredCount(stress_triggers, "meetings") = 1
    /\ stress_triggers[1].tag = "meetings"

FirstSeenOrder(st) ==
    LET rank(i) == 1 + Cardinality({j \in 1..Len(st) :
                                      \/ st[j].count > st[i].count
                                      \/ st[j].count = st[i].count /\ j < i})
    IN  [k \in 1..Len(st) |-> st[CHOOSE i \in 1..Len(st) : rank(i) = k]]

\* C13: the top stress triggers chart lists the tags by descending count,
\* tags of equal count in first-seen order, cut to its first ten rows.
C13_TopTriggersFirstSeen ==
    (result.op \in {"view_analytics", "select_period"}
        /\ result.out.shown = "summary" /\ stress_triggers # <<>>)
    => result.out.top_triggers = head(FirstSeenOrder(stress_triggers), TopN)

\* the whitespace-delimited tokens of s, counted at their last atoms
Tokens(s) ==
    Cardinality({i \in 1..Len(s) : s[i] # WS /\ (i = Len(s) \/ s[i + 1] = WS)})

\* C14: a Save Entry run with blank content stores nothing; any other
\* appends exactly one entry, holding the content as typed and its number
\* of whitespace-delimited tokens as word_count; every stored entry keeps
\* its content and word_count for as long as it is stored.
C14_SaveStoresWordCount ==
    /\ [](\A i \in 1..Len(wellness_log) :
             /\ ~IsBlank(wellness_log[i].content)
             /\ wellness_log[i].word_count = Tokens(wellness_log[i].content))
    /\ [][/\ (result'.op = "save_entry" /\ "journal_entry" \in DOMAIN result'.out) =>
                LET text == result'.out.journal_entry
                    n == Len(wellness_log)
                IN  IF IsBlank(text)
                    THEN wellness_log' = wellness_log
                    ELSE /\ Len(wellness_log') = n + 1
                         /\ SubSeq(wellness_log', 1, n) = wellness_log
                         /\ wellness_log'[n + 1].content = text
                         /\ wellness_log'[n + 1].word_count = Tokens(text)
          /\ result'.op # "save_entry" => Len(wellness_log') <= Len(wellness_log)
          /\ \A i \in 1..Len(wellness_log) : \A j \in 1..Len(wellness_log') :
                wellness_log'[j].timestamp.val = wellness_log[i].timestamp.val
                   => /\ wellness_log'[j].word_count = wellness_log[i].word_count
                      /\ wellness_log'[j].content = wellness_log[i].content]_vars

C14_Witness ==
    /\ result.op = "save_entry"
    /\ result.ok
    /\ result.out.shown = "saved"
    /\ Len(wellness_log) = 2
    /\ wellness_log[2].word_count = 2
    /\ wellness_log[2].content = result.out.journal_entry
====
